---- MODULE Spec2Model ----
(***************************************************************************)
(* Ocean scene: render-loop lifecycle and animation state machine.         *)
(*                                                                         *)
(* The source holds two copies of the program:                             *)
(*   "js"   Ocean.js        module-level state, init() run once on         *)
(*                          DOMContentLoaded, no teardown;                 *)
(*   "jsx"  Ocean copy.jsx  a React effect: one closure per mount, with a  *)
(*                          cleanup function run on unmount.               *)
(* A session is one run of init (js) or of the effect body (jsx).          *)
(*                                                                         *)
(* The 3D engine is a collaborator.  What the model takes from it:         *)
(*   - renderer.setAnimationLoop(f) calls f once per display refresh       *)
(*     until the loop is stopped; renderer.dispose() stops it;             *)
(*   - Object3D.add(o) detaches o from its previous parent, then appends;  *)
(*   - a load started with loader.load(...) is never cancelled and ends    *)
(*     in exactly one of success / failure; on failure the error callback  *)
(*     of the load and the onError of its LoadingManager both run;         *)
(*   - addEventListener keeps one entry per listener function.             *)
(***************************************************************************)
EXTENDS Integers, Sequences, FiniteSets, TLC

(***************************************************************************)
(* Bounds of the model.                                                    *)
(***************************************************************************)
MaxFrames == 3
MaxClock == 1

\* Sessions are numbered in the order they are mounted.
Sessions == {1, 2}

\* A variable that holds no object yet (JavaScript's undefined).
Undefined == [defined |-> FALSE]

IsDefined(v) == v.defined

(***************************************************************************)
(* Double-precision numbers of the water phase.                            *)
(*                                                                         *)
(* Every value the phase takes is 0 or at least 1/40, so it is a multiple  *)
(* of 2^-58.  A value is kept as its count of 2^-58 units, in three limbs  *)
(* <<a0, a1, a2>> of 20 bits (a0 least significant).  Results are rounded  *)
(* to 53 significant bits, ties to even, as IEEE 754 binary64 does.        *)
(***************************************************************************)
LimbBase == 2^20

UnitExp == 52 + 6

BigZero == <<0, 0, 0>>

BigNorm(t) ==
  LET b1 == t[2] + (t[1] \div LimbBase)
  IN  <<t[1] % LimbBase, b1 % LimbBase, t[3] + (b1 \div LimbBase)>>

BigAdd(a, b) == BigNorm(<<a[1] + b[1], a[2] + b[2], a[3] + b[3]>>)

RECURSIVE BitLen(_)
BitLen(n) == IF n = 0 THEN 0 ELSE 1 + BitLen(n \div 2)

BigBitLen(a) ==
  IF a[3] > 0 THEN 40 + BitLen(a[3])
  ELSE IF a[2] > 0 THEN 20 + BitLen(a[2])
  ELSE BitLen(a[1])

\* Round the exact value  q + fraction  to the nearest double.  frac tells
\* where the fraction of a unit lies: 0 none, 1 below half, 2 half, 3 above.
RoundDouble(q, frac) ==
  LET len == BigBitLen(q)
  IN  IF len <= 53
      THEN IF frac = 3 \/ (frac = 2 /\ q[1] % 2 = 1)
           THEN BigAdd(q, <<1, 0, 0>>)
           ELSE q
      ELSE LET step == 2^(len - 53)
               r    == q[1] % step
               down == <<q[1] - r, q[2], q[3]>>
               up   == \/ 2 * r > step
                       \/ 2 * r = step /\ frac > 0
                       \/ 2 * r = step /\ frac = 0 /\ (q[1] \div step) % 2 = 1
           IN  IF up THEN BigAdd(down, <<step, 0, 0>>) ELSE down

\* x + y of two doubles
FAdd(x, y) == RoundDouble(BigAdd(x, y), 0)

\* n / d of two small non-negative integers (d > 0), as a double
FDiv(n, d) ==
  LET a2 == n * 2^(UnitExp - 40)
      q2 == a2 \div d
      t1 == (a2 % d) * LimbBase
      q1 == t1 \div d
      t0 == (t1 % d) * LimbBase
      q0 == t0 \div d
      r0 == t0 % d
      frac == IF r0 = 0 THEN 0
              ELSE IF 2 * r0 < d THEN 1
              ELSE IF 2 * r0 = d THEN 2 ELSE 3
  IN  RoundDouble(BigNorm(<<q0, q1, q2>>), frac)

(***************************************************************************)
(* Double-precision numbers of the camera position.                        *)
(*                                                                         *)
(* A natural number of any size is the sequence of its limbs of 15 bits,   *)
(* least significant first, without leading zero limbs (<<>> is 0).  A     *)
(* double is [neg, mant, exp] for the value (-1)^neg * mant * 2^exp with   *)
(* mant a natural number of exactly 53 bits, or DZero.  Results are        *)
(* rounded to nearest, ties to even, as IEEE 754 binary64 does; the values *)
(* of the model stay far from overflow and from subnormal numbers.         *)
(***************************************************************************)
NatBase == 2^15

Limb(a, i) == IF i <= Len(a) THEN a[i] ELSE 0

Zeros(k) == [i \in 1..k |-> 0]

RECURSIVE NatNorm(_)
NatNorm(a) ==
  IF Len(a) > 0 /\ a[Len(a)] = 0 THEN NatNorm(SubSeq(a, 1, Len(a) - 1))
  ELSE a

RECURSIVE NatOf(_)
NatOf(n) == IF n = 0 THEN <<>> ELSE <<n % NatBase>> \o NatOf(n \div NatBase)

RECURSIVE NatAddFrom(_, _, _, _)
NatAddFrom(a, b, i, carry) ==
  IF i > Len(a) /\ i > Len(b)
  THEN IF carry = 0 THEN <<>> ELSE <<carry>>
  ELSE LET t == Limb(a, i) + Limb(b, i) + carry
       IN  <<t % NatBase>> \o NatAddFrom(a, b, i + 1, t \div NatBase)

NatAdd(a, b) == NatNorm(NatAddFrom(a, b, 1, 0))

RECURSIVE NatSubFrom(_, _, _, _)
NatSubFrom(a, b, i, borrow) ==
  IF i > Len(a) THEN <<>>
  ELSE LET t == Limb(a, i) - Limb(b, i) - borrow
       IN  <<(t + NatBase) % NatBase>>
             \o NatSubFrom(a, b, i + 1, IF t < 0 THEN 1 ELSE 0)

\* a - b, for a >= b
NatSub(a, b) == NatNorm(NatSubFrom(a, b, 1, 0))

RECURSIVE NatCmpFrom(_, _, _)
NatCmpFrom(a, b, i) ==
  IF i = 0 THEN 0
  ELSE IF Limb(a, i) < Limb(b, i) THEN -1
  ELSE IF Limb(a, i) > Limb(b, i) THEN 1
  ELSE NatCmpFrom(a, b, i - 1)

\* -1, 0 or 1 as a < b, a = b or a > b
NatCmp(a, b) == NatCmpFrom(a, b, IF Len(a) > Len(b) THEN Len(a) ELSE Len(b))

RECURSIVE NatMulLimbFrom(_, _, _, _)
NatMulLimbFrom(a, d, i, carry) ==
  IF i > Len(a) THEN IF carry = 0 THEN <<>> ELSE <<carry>>
  ELSE LET t == a[i] * d + carry
       IN  <<t % NatBase>> \o NatMulLimbFrom(a, d, i + 1, t \div NatBase)

\* a * d, for a limb d
NatMulLimb(a, d) == NatNorm(NatMulLimbFrom(a, d, 1, 0))

RECURSIVE NatMulFrom(_, _, _)
NatMulFrom(a, b, i) ==
  IF i > Len(b) THEN <<>>
  ELSE NatAdd(NatNorm(Zeros(i - 1) \o NatMulLimb(a, b[i])),
              NatMulFrom(a, b, i + 1))

NatMul(a, b) == NatMulFrom(a, b, 1)

RECURSIVE NatDivLimbFrom(_, _, _, _)
NatDivLimbFrom(a, d, i, r) ==
  IF i = 0 THEN <<>>
  ELSE LET t == r * NatBase + a[i]
       IN  NatDivLimbFrom(a, d, i - 1, t % d) \o <<t \div d>>

\* a \div d, for a limb d > 0
NatDivLimb(a, d) == NatNorm(NatDivLimbFrom(a, d, Len(a), 0))

RECURSIVE NatModLimbFrom(_, _, _, _)
NatModLimbFrom(a, d, i, r) ==
  IF i = 0 THEN r ELSE NatModLimbFrom(a, d, i - 1, (r * NatBase + a[i]) % d)

\* a % d, for a limb d > 0
NatModLimb(a, d) == NatModLimbFrom(a, d, Len(a), 0)

NatBitLen(a) ==
  IF a = <<>> THEN 0 ELSE 15 * (Len(a) - 1) + BitLen(a[Len(a)])

\* a * 2^k
NatShl(a, k) == NatNorm(Zeros(k \div 15) \o NatMulLimb(a, 2^(k % 15)))

\* a \div 2^k
NatShr(a, k) ==
  IF k \div 15 >= Len(a) THEN <<>>
  ELSE NatDivLimb(SubSeq(a, k \div 15 + 1, Len(a)), 2^(k % 15))

NatOdd(a) == a # <<>> /\ a[1] % 2 = 1

DZero == [neg |-> FALSE, mant |-> <<>>, exp |-> 0]

\* the double nearest to (-1)^neg * m * 2^e
DRound(neg, m, e) ==
  LET len == NatBitLen(m)
  IN  IF len = 0 THEN DZero
      ELSE IF len <= 53
      THEN [neg |-> neg, mant |-> NatShl(m, 53 - len), exp |-> e - (53 - len)]
      ELSE LET sh   == len - 53
               q    == NatShr(m, sh)
               rest == NatSub(m, NatShl(q, sh))
               half == NatCmp(NatShl(rest, 1), NatShl(<<1>>, sh))
               up   == half = 1 \/ (half = 0 /\ NatOdd(q))
               q1   == IF up THEN NatAdd(q, <<1>>) ELSE q
           IN  IF NatBitLen(q1) > 53
               THEN [neg |-> neg, mant |-> NatShr(q1, 1), exp |-> e + sh + 1]
               ELSE [neg |-> neg, mant |-> q1, exp |-> e + sh]

\* the double of an integer
DOfInt(n) == DRound(n < 0, NatOf(IF n < 0 THEN -n ELSE n), 0)

\* the double a decimal literal of value n / d denotes (n >= 0, d a limb)
DLiteral(n, d) ==
  LET num    == NatShl(NatOf(n), 75)
      q      == NatDivLimb(num, d)
      sticky == IF NatModLimb(num, d) = 0 THEN <<>> ELSE <<1>>
  IN  DRound(FALSE, NatAdd(NatShl(q, 1), sticky), -76)

DNeg(a) == IF a = DZero THEN a ELSE [a EXCEPT !.neg = ~@]

\* a * b
DMul(a, b) ==
  DRound(a.neg # b.neg, NatMul(a.mant, b.mant), a.exp + b.exp)

\* a + b
DAdd(a, b) ==
  LET e  == IF a.exp < b.exp THEN a.exp ELSE b.exp
      ma == NatShl(a.mant, a.exp - e)
      mb == NatShl(b.mant, b.exp - e)
  IN  IF a = DZero THEN b
      ELSE IF b = DZero THEN a
      ELSE IF a.neg = b.neg THEN DRound(a.neg, NatAdd(ma, mb), e)
      ELSE IF NatCmp(ma, mb) >= 0 THEN DRound(a.neg, NatSub(ma, mb), e)
      ELSE DRound(b.neg, NatSub(mb, ma), e)

\* a - b
DSub(a, b) == DAdd(a, DNeg(b))

(***************************************************************************)
(* The environment: window layouts, pointer positions, model files.        *)
(***************************************************************************)
\* window.innerWidth and the content box of the container
Layouts ==
  { [innerWidth |-> 800,  clientWidth |-> 800, clientHeight |-> 400],
    [innerWidth |-> 1000, clientWidth |-> 500, clientHeight |-> 500] }

\* event.clientX of a pointer-move event
ClientXs == {100, 500}

\* what the model file decodes to: a group with one single-material mesh,
\* or a group with one mesh that carries an array of two materials
GltfScenes == {"single", "multi"}

VARIABLES
  variant,             \* "js" or "jsx": which copy of the program runs
  container,           \* the element with id "three": present, children
  layout,              \* current window / container geometry
  now,                 \* performance.now(), in milliseconds
  mousemoveListeners,  \* sessions whose onDocumentMouseMove is on document
  resizeListeners,     \* sessions whose onWindowResize is on window
  console,             \* console.error lines, counted per session and kind
  status,              \* "none", "live", "aborted", "stopped", "unmounted"
  renderer, scene, camera, water, sky, modelT,
  mouseX, windowHalfX,
  waterNormals,        \* the texture returned by textureLoader.load
  modelLoad,           \* "idle", "pending", "loaded", "failed"
  renderTarget,        \* the prefiltered environment (local of init)
  allocated,           \* geometries, materials, textures the session made
  disposed,            \* those on which dispose() has been called
  frames,              \* frame callbacks delivered to the session
  thrown,              \* frame callbacks that ended in an exception
  clock,               \* <<time>> of the last frame of the session, or <<>>
  sessionStart,        \* performance.now() when init ran for the session
  lastClientX          \* clientX of the last pointer-move a listener got

vars ==
  << variant, container, layout, now, mousemoveListeners, resizeListeners,
     console, status, renderer, scene, camera, water, sky, modelT, mouseX,
     windowHalfX, waterNormals, modelLoad, renderTarget, allocated, disposed,
     frames, thrown, clock, sessionStart, lastClientX >>

NoErrors == [container |-> 0, texture |-> 0, manager |-> 0, model |-> 0]

Init ==
  /\ variant \in {"js", "jsx"}
  /\ container \in { [present |-> FALSE, children |-> <<>>],
                     [present |-> TRUE,  children |-> <<>>],
                     [present |-> TRUE,  children |-> <<0>>] }
  /\ layout \in Layouts
  /\ now = 0
  /\ mousemoveListeners = {}
  /\ resizeListeners = {}
  /\ console = [s \in Sessions |-> NoErrors]
  /\ status = [s \in Sessions |-> "none"]
  /\ renderer = [s \in Sessions |-> Undefined]
  /\ scene = [s \in Sessions |-> Undefined]
  /\ camera = [s \in Sessions |-> Undefined]
  /\ water = [s \in Sessions |-> Undefined]
  /\ sky = [s \in Sessions |-> Undefined]
  /\ modelT = [s \in Sessions |-> Undefined]
  /\ mouseX = [s \in Sessions |-> 0]
  \* Ocean.js evaluates windowHalfX when the module loads
  /\ windowHalfX = [s \in Sessions |->
                      IF variant = "js" /\ s = 1
                      THEN layout.innerWidth \div 2 ELSE 0]
  /\ waterNormals = [s \in Sessions |-> Undefined]
  /\ modelLoad = [s \in Sessions |-> "idle"]
  /\ renderTarget = [s \in Sessions |-> Undefined]
  /\ allocated = [s \in Sessions |-> {}]
  /\ disposed = [s \in Sessions |-> {}]
  /\ frames = [s \in Sessions |-> 0]
  /\ thrown = [s \in Sessions |-> 0]
  /\ clock = [s \in Sessions |-> <<>>]
  /\ sessionStart = [s \in Sessions |-> 0]
  /\ lastClientX = [s \in Sessions |-> <<>>]

(***************************************************************************)
(* Scene graph.  Nodes are named; a node's geometry and material are the   *)
(* GPU-backed resources it holds.  A material is one resource or an array. *)
(***************************************************************************)
Remove(seq, n) == SelectSeq(seq, LAMBDA e : e # n)

\* Object3D.add: the node leaves its previous parent, then is appended
Object3DAdd(children, n) == Append(Remove(children, n), n)

\* children of the loaded model's root node (gltf.scene)
ModelChildren(gltf) == IF gltf = "single" THEN <<"meshA">> ELSE <<"meshB">>

NodeGeometry(n) ==
  CASE n = "water" -> {"waterGeometry"}
    [] n = "sky"   -> {"skyGeometry"}
    [] n = "meshA" -> {"modelGeometryA"}
    [] n = "meshB" -> {"modelGeometryB"}
    [] OTHER       -> {}

\* object.material: <<m>> stands for a single material m, a longer sequence
\* for an array of materials, <<>> for a node without material
NodeMaterial(n) ==
  CASE n = "water" -> <<"waterMaterial">>
    [] n = "sky"   -> <<"skyMaterial">>
    [] n = "meshA" -> <<"modelMaterialA">>
    [] n = "meshB" -> <<"modelMaterialB1", "modelMaterialB2">>
    [] OTHER       -> <<>>

Range(seq) == {seq[i] : i \in 1..Len(seq)}

\* what decoding the model file allocates
ModelResources(gltf) ==
  UNION {NodeGeometry(n) \cup Range(NodeMaterial(n)) :
           n \in Range(ModelChildren(gltf))} \cup {"modelTexture"}

\* what init allocates; the unattached box mesh exists in the jsx copy only
InitResources(v) ==
  {"waterGeometry", "waterMaterial", "waterNormals", "skyGeometry",
   "skyMaterial", "envTarget"}
    \cup (IF v = "jsx" THEN {"boxGeometry", "boxMaterial"} ELSE {})

\* the nodes scene.traverse visits: the children of the root and, below the
\* model's root node, its meshes
Reachable(sc, m) ==
  Range(sc.children)
    \cup (IF "modelT" \in Range(sc.children) /\ IsDefined(m)
          THEN Range(ModelChildren(m.gltf)) ELSE {})

\* the sun vector of setFromSphericalCoords(1, phi, theta), in degrees
SunVector == [radius |-> 1, phi |-> 90 - 2, theta |-> 180]

\* Vector3.normalize(): the same direction at length 1
Normalize(v) == [v EXCEPT !.radius = 1]

\* pmremGenerator.fromScene(sceneEnv): a new prefiltered environment.
\* generation counts the environments made so far, live those of them not
\* disposed.
NewEnvironment(target) ==
  [defined    |-> TRUE,
   name       |-> "envTarget",
   generation |-> IF IsDefined(target) THEN target.generation + 1 ELSE 1,
   live       |-> IF IsDefined(target) THEN (target.live - 1) + 1 ELSE 1]

\* the environment baked but not installed
updateSunWithoutInstall(sc, sk, w, target, disp) ==
  [ scene        |-> sc,
    sky          |-> [sk EXCEPT !.sunPosition = SunVector],
    water        |-> [w EXCEPT !.sunDirection = Normalize(SunVector)],
    renderTarget |-> NewEnvironment(target),
    sceneEnv     |-> <<>>,
    disposed     |-> IF IsDefined(target) THEN disp \cup {target.name}
                     ELSE disp ]

\* the sky left in sceneEnv: scene.add(sky) not called again
updateSunSkyLeftInEnv(sc, sk, w, target, disp) ==
  [ scene        |-> [sc EXCEPT !.children = Remove(@, "sky"),
                                !.environment = NewEnvironment(target).name],
    sky          |-> [sk EXCEPT !.sunPosition = SunVector],
    water        |-> [w EXCEPT !.sunDirection = Normalize(SunVector)],
    renderTarget |-> NewEnvironment(target),
    sceneEnv     |-> <<"sky">>,
    disposed     |-> IF IsDefined(target) THEN disp \cup {target.name}
                     ELSE disp ]

\* updateSun: writes the sun into sky and water, disposes the previous
\* environment, bakes a new one through sceneEnv and installs it
updateSun(sc, sk, w, target, disp) ==
  LET disp1     == IF IsDefined(target) THEN disp \cup {target.name} ELSE disp
      inEnv     == Object3DAdd(<<>>, "sky")
      detached  == Remove(sc.children, "sky")
      target1   == NewEnvironment(target)
      children2 == Object3DAdd(detached, "sky")
      outEnv    == Remove(inEnv, "sky")
  IN  [ scene        |-> [sc EXCEPT !.children = children2,
                                    !.environment = target1.name],
        sky          |-> [sk EXCEPT !.sunPosition = SunVector],
        water        |-> [w EXCEPT !.sunDirection = Normalize(SunVector)],
        renderTarget |-> target1,
        sceneEnv     |-> outEnv,
        disposed     |-> disp1 ]

(***************************************************************************)
(* Mount: DOMContentLoaded -> init (js), or the effect body (jsx).         *)
(***************************************************************************)
\* the missing-container branch: Ocean.js logs, the jsx copy returns silently
MissingContainer(v, log) ==
  IF v = "js" THEN [log EXCEPT !.container = @ + 1] ELSE log

\* container.innerHTML = '' when it has children, then appendChild(canvas)
AttachCanvas(children, s) ==
  Append(IF Len(children) > 0 THEN <<>> ELSE children, s)

AddListener(reg, s) == reg \cup {s}

\* init ended once the renderer exists, its loop is registered and its
\* canvas attached: no scene, camera, water or sky
initLoopOnly(s) ==
  /\ container' = [container EXCEPT !.children = AttachCanvas(@, s)]
  /\ renderer' = [renderer EXCEPT ![s] =
                    [defined |-> TRUE, animating |-> TRUE,
                     size |-> <<layout.clientWidth, layout.clientHeight>>,
                     disposed |-> FALSE, contextLost |-> FALSE,
                     draws |-> 0]]
  /\ status' = [status EXCEPT ![s] = "live"]
  /\ sessionStart' = [sessionStart EXCEPT ![s] = now]
  /\ UNCHANGED <<camera, scene, sky, water, renderTarget, waterNormals,
                 modelLoad, allocated, disposed, mousemoveListeners,
                 resizeListeners, mouseX, windowHalfX, console, modelT,
                 lastClientX>>

\* init runs from its first statement to its last in one turn of the event
\* loop of the page: no callback is delivered in between
init(s) ==
  LET box  == <<layout.clientWidth, layout.clientHeight>>
      sc0  == [defined |-> TRUE, children |-> <<"water", "sky">>,
               environment |-> "none"]
      sk0  == [defined |-> TRUE, scale |-> 10000, sunPosition |-> "none"]
      w0   == [defined |-> TRUE, time |-> BigZero, sunDirection |-> "none"]
      sun  == updateSun(sc0, sk0, w0, Undefined, {})
  IN  /\ container' = [container EXCEPT
                         !.children = AttachCanvas(@, s)]
      /\ renderer' = [renderer EXCEPT ![s] =
                        [defined |-> TRUE, animating |-> TRUE, size |-> box,
                         disposed |-> FALSE, contextLost |-> FALSE,
                         draws |-> 0]]
      /\ camera' = [camera EXCEPT ![s] =
                      [defined |-> TRUE, x |-> <<>>,
                       positionX |-> DOfInt(30), aspect |-> box,
                       lookAt |-> "none"]]
      /\ scene' = [scene EXCEPT ![s] = sun.scene]
      /\ sky' = [sky EXCEPT ![s] = sun.sky]
      /\ water' = [water EXCEPT ![s] = sun.water]
      /\ renderTarget' = [renderTarget EXCEPT ![s] = sun.renderTarget]
      /\ waterNormals' = [waterNormals EXCEPT ![s] =
                            [defined |-> TRUE, load |-> "pending",
                             wrap |-> "clamp"]]
      /\ modelLoad' = [modelLoad EXCEPT ![s] = "pending"]
      /\ allocated' = [allocated EXCEPT ![s] = InitResources(variant)]
      /\ disposed' = [disposed EXCEPT ![s] = sun.disposed]
      /\ mousemoveListeners' = AddListener(mousemoveListeners, s)
      /\ resizeListeners' = AddListener(resizeListeners, s)
      \* the jsx copy declares mouseX and windowHalfX inside the effect
      /\ mouseX' = IF variant = "jsx" THEN [mouseX EXCEPT ![s] = 0]
                   ELSE mouseX
      /\ windowHalfX' = IF variant = "jsx"
                        THEN [windowHalfX EXCEPT
                                ![s] = layout.innerWidth \div 2]
                        ELSE windowHalfX
      /\ status' = [status EXCEPT ![s] = "live"]
      /\ sessionStart' = [sessionStart EXCEPT ![s] = now]
      /\ UNCHANGED <<console, modelT, lastClientX>>

Mount(s) ==
  /\ status[s] = "none"
  /\ \A p \in Sessions : p < s => status[p] # "none"
  /\ variant = "js" => s = 1
  /\ IF container.present
     THEN init(s)
     ELSE /\ console' = [console EXCEPT
                           ![s] = MissingContainer(variant, @)]
          /\ status' = [status EXCEPT ![s] = "aborted"]
          /\ UNCHANGED <<container, renderer, camera, scene, sky, water,
                         renderTarget, waterNormals, modelLoad, allocated,
                         disposed, mousemoveListeners, resizeListeners,
                         mouseX, windowHalfX, modelT, sessionStart,
                         lastClientX>>
  /\ UNCHANGED <<variant, layout, now, frames, thrown, clock>>

(***************************************************************************)
(* The per-frame callback: animate -> render.                              *)
(***************************************************************************)
\* 1.0 / 40.0
WaterStep == FDiv(1, 40)

\* the transform written without looking at the slot
AlwaysPresent(m) == TRUE

\* if (modelT)
ModelPresent(m) == IsDefined(m)

\* the literals 0.015 and 0.05
PointerGain == DLiteral(15, 1000)

Smoothing == DLiteral(5, 100)

\* the camera moved half of the way to its target
FollowStepHalfway(x, mx) ==
  DAdd(x, DMul(DSub(DMul(DOfInt(mx), PointerGain), x), DLiteral(5, 10)))

\* x + (mouseX * 0.015 - x) * 0.05, every operation rounded to a double
FollowStep(x, mx) ==
  DAdd(x, DMul(DSub(DMul(DOfInt(mx), PointerGain), x), Smoothing))

\* camera.position.x += (mouseX * 0.015 - camera.position.x) * 0.05
\* positionX is the coordinate, starting from camera.position.set(30, 30,
\* 120); x keeps the pointer offsets folded into it so far.
CameraFollow(cam, mx) ==
  [cam EXCEPT !.x = Append(@, mx), !.positionX = FollowStep(@, mx),
              !.lookAt = <<0, 16, 0>>]

\* A coordinate that may involve a sine is kept as the term
\* sin(t) * times + plus, with t in thousandths of a second; the number c
\* is the term without a sine, 0 * times + c.
Number(c) == [sinOf |-> <<>>, times |-> 0, plus |-> c]

SinTimesPlus(t, a, b) == [sinOf |-> <<t>>, times |-> a, plus |-> b]

\* time * 0.51, time * 0.51, time * 0.5 for the x, y and z angle, in units
\* of 10^-5 rad (time is in thousandths of a second)
RotationAt(time) == <<51 * time, 51 * time, 50 * time>>

\* the angles advanced from where they were
FloatingMotionAccumulated(m, time) ==
  [m EXCEPT !.motion = <<time>>,
            !.position[2] = SinTimesPlus(time, 20, 5),
            !.rotation = <<@[1] + RotationAt(time)[1],
                           @[2] + RotationAt(time)[2],
                           @[3] + RotationAt(time)[3]>>]

\* modelT.position.y = Math.sin(time) * 20 + 5; rotation.z = time * 0.5;
\* rotation.y = time * 0.51; rotation.x = time * 0.51.  motion keeps the
\* clock sample of the last frame that moved the model.
FloatingMotion(m, time) ==
  [m EXCEPT !.motion = <<time>>,
            !.position[2] = SinTimesPlus(time, 20, 5),
            !.rotation = RotationAt(time)]

\* the phase taken from the clock: value = time
AdvanceWaterByClock(w, time) == [w EXCEPT !.time = FDiv(time, 1000)]

\* water.material.uniforms['time'].value += 1.0 / 40.0
AdvanceWater(w, time) == [w EXCEPT !.time = FAdd(@, WaterStep)]

\* renderer.render(scene, camera)
Draw(r) == [r EXCEPT !.draws = @ + 1]

RECURSIVE SumTo(_, _)
SumTo(f, n) == IF n = 0 THEN 0 ELSE f[n] + SumTo(f, n - 1)

TotalFrames == SumTo(frames, Cardinality(Sessions))

\* a clock that stands still
SampleTimeFrozen(ms) == 0

\* const time = performance.now() * 0.001: seconds, kept in thousandths
SampleTime(ms) == ms

\* A statement that dereferences an undefined variable throws, and the rest
\* of the callback is skipped.
render(s) ==
  LET time    == SampleTime(now)
      camOK   == IsDefined(camera[s])
      guard   == ModelPresent(modelT[s])
      modelOK == camOK /\ (guard => IsDefined(modelT[s]))
      waterOK == modelOK /\ IsDefined(water[s])
      drawOK  == waterOK /\ IsDefined(renderer[s])
  IN  /\ clock' = [clock EXCEPT ![s] = <<time>>]
      /\ camera' = IF camOK
                   THEN [camera EXCEPT ![s] = CameraFollow(@, mouseX[s])]
                   ELSE camera
      /\ modelT' = IF modelOK /\ guard
                   THEN [modelT EXCEPT ![s] = FloatingMotion(@, time)]
                   ELSE modelT
      /\ water' = IF waterOK
                  THEN [water EXCEPT ![s] = AdvanceWater(@, time)]
                  ELSE water
      /\ renderer' = IF drawOK
                     THEN [renderer EXCEPT ![s] = Draw(@)]
                     ELSE renderer
      /\ thrown' = [thrown EXCEPT ![s] = IF drawOK THEN @ ELSE @ + 1]

\* one display refresh delivered to the animation loop of session s
Frame(s) ==
  /\ IsDefined(renderer[s])
  /\ renderer[s].animating
  /\ TotalFrames < MaxFrames
  /\ frames' = [frames EXCEPT ![s] = @ + 1]
  /\ render(s)
  /\ UNCHANGED <<variant, container, layout, now, mousemoveListeners,
                 resizeListeners, console, status, scene, sky, mouseX,
                 windowHalfX, waterNormals, modelLoad, renderTarget,
                 allocated, disposed, sessionStart, lastClientX>>

\* time passes
Tick ==
  /\ now < MaxClock
  /\ now' = now + 1
  /\ UNCHANGED <<variant, container, layout, mousemoveListeners,
                 resizeListeners, console, status, renderer, scene, camera,
                 water, sky, modelT, mouseX, windowHalfX, waterNormals,
                 modelLoad, renderTarget, allocated, disposed, frames,
                 thrown, clock, sessionStart, lastClientX>>

(***************************************************************************)
(* Input events.                                                           *)
(***************************************************************************)
\* the offset recorded as it is
onDocumentMouseMoveUnscaled(clientX, halfX) == clientX - halfX

\* mouseX = (event.clientX - windowHalfX) * 2
onDocumentMouseMove(clientX, halfX) == (clientX - halfX) * 2

PointerMove(clientX) ==
  /\ mouseX' = [s \in Sessions |->
                  IF s \in mousemoveListeners
                  THEN onDocumentMouseMove(clientX, windowHalfX[s])
                  ELSE mouseX[s]]
  /\ lastClientX' = [s \in Sessions |->
                       IF s \in mousemoveListeners
                       THEN <<clientX>> ELSE lastClientX[s]]
  /\ UNCHANGED <<variant, container, layout, now, mousemoveListeners,
                 resizeListeners, console, status, renderer, scene, camera,
                 water, sky, modelT, windowHalfX, waterNormals, modelLoad,
                 renderTarget, allocated, disposed, frames, thrown, clock,
                 sessionStart>>

\* Ocean.js looks the container up again and returns when it is gone; the
\* jsx copy uses the container of its closure
ResizeApplies(v, c) == v = "jsx" \/ c.present

\* the aspect taken as height over width
onWindowResizeCameraInverted(cam, l) ==
  [cam EXCEPT !.aspect = <<l.clientHeight, l.clientWidth>>]

\* camera.aspect = container.clientWidth / container.clientHeight: the
\* quotient is kept as numerator and denominator
onWindowResizeCamera(cam, l) ==
  [cam EXCEPT !.aspect = <<l.clientWidth, l.clientHeight>>]

onWindowResizeRenderer(r, l) ==
  [r EXCEPT !.size = <<l.clientWidth, l.clientHeight>>]

\* the window takes layout l, then every registered resize listener runs
WindowResize(l) ==
  /\ layout' = l
  /\ camera' = [s \in Sessions |->
                  IF s \in resizeListeners /\ ResizeApplies(variant, container)
                  THEN onWindowResizeCamera(camera[s], l) ELSE camera[s]]
  /\ renderer' = [s \in Sessions |->
                    IF s \in resizeListeners
                       /\ ResizeApplies(variant, container)
                    THEN onWindowResizeRenderer(renderer[s], l)
                    ELSE renderer[s]]
  /\ UNCHANGED <<variant, container, now, mousemoveListeners,
                 resizeListeners, console, status, scene, water, sky, modelT,
                 mouseX, windowHalfX, waterNormals, modelLoad, renderTarget,
                 allocated, disposed, frames, thrown, clock, sessionStart,
                 lastClientX>>

(***************************************************************************)
(* Asset loads: completion is delivered whenever the engine has it.        *)
(***************************************************************************)
\* modelT = gltf.scene; position (0,0,0); scale 20
NewModel(gltf) ==
  [defined |-> TRUE, gltf |-> gltf,
   position |-> <<Number(0), Number(0), Number(0)>>,
   rotation |-> <<0, 0, 0>>,
   scale |-> <<20, 20, 20>>, motion |-> <<>>]

\* the node appended without leaving its parent, a second time
AttachModelTwice(sc) ==
  [sc EXCEPT !.children = Append(Append(@, "modelT"), "modelT")]

\* scene.add(modelT)
AttachModel(sc) == [sc EXCEPT !.children = Object3DAdd(@, "modelT")]

ModelLoaded(s, gltf) ==
  /\ modelLoad[s] = "pending"
  /\ modelLoad' = [modelLoad EXCEPT ![s] = "loaded"]
  /\ modelT' = [modelT EXCEPT ![s] = NewModel(gltf)]
  /\ scene' = [scene EXCEPT ![s] = AttachModel(@)]
  /\ allocated' = [allocated EXCEPT ![s] = @ \cup ModelResources(gltf)]
  /\ UNCHANGED <<variant, container, layout, now, mousemoveListeners,
                 resizeListeners, console, status, renderer, camera, water,
                 sky, mouseX, windowHalfX, waterNormals, renderTarget,
                 disposed, frames, thrown, clock, sessionStart, lastClientX>>

\* console.error('Error loading GLTF model:', error)
ModelErrorCallback(log) == [log EXCEPT !.model = @ + 1]

\* loadingManager.onError: console.error('Error loading texture:', url)
ManagerOnError(log) == [log EXCEPT !.manager = @ + 1]

\* console.error('Error loading water normal texture:', error)
TextureErrorCallback(log) == [log EXCEPT !.texture = @ + 1]

ModelFailed(s) ==
  /\ modelLoad[s] = "pending"
  /\ modelLoad' = [modelLoad EXCEPT ![s] = "failed"]
  /\ console' = [console EXCEPT
                   ![s] = ManagerOnError(ModelErrorCallback(@))]
  /\ UNCHANGED <<variant, container, layout, now, mousemoveListeners,
                 resizeListeners, status, renderer, scene, camera, water,
                 sky, modelT, mouseX, windowHalfX, waterNormals,
                 renderTarget, allocated, disposed, frames, thrown, clock,
                 sessionStart, lastClientX>>

\* console.log(... '% loaded'): a log line, no state
ModelProgress(s) ==
  /\ modelLoad[s] = "pending"
  /\ UNCHANGED vars

\* texture.wrapS = texture.wrapT = THREE.RepeatWrapping
TextureLoaded(s) ==
  /\ IsDefined(waterNormals[s])
  /\ waterNormals[s].load = "pending"
  /\ waterNormals' = [waterNormals EXCEPT
                        ![s] = [@ EXCEPT !.load = "loaded",
                                         !.wrap = "repeat"]]
  /\ UNCHANGED <<variant, container, layout, now, mousemoveListeners,
                 resizeListeners, console, status, renderer, scene, camera,
                 water, sky, modelT, mouseX, windowHalfX, modelLoad,
                 renderTarget, allocated, disposed, frames, thrown, clock,
                 sessionStart, lastClientX>>

TextureFailed(s) ==
  /\ IsDefined(waterNormals[s])
  /\ waterNormals[s].load = "pending"
  /\ waterNormals' = [waterNormals EXCEPT ![s].load = "failed"]
  /\ console' = [console EXCEPT
                   ![s] = ManagerOnError(TextureErrorCallback(@))]
  /\ UNCHANGED <<variant, container, layout, now, mousemoveListeners,
                 resizeListeners, status, renderer, scene, camera, water,
                 sky, modelT, mouseX, windowHalfX, modelLoad, renderTarget,
                 allocated, disposed, frames, thrown, clock, sessionStart,
                 lastClientX>>

TextureProgress(s) ==
  /\ IsDefined(waterNormals[s])
  /\ waterNormals[s].load = "pending"
  /\ UNCHANGED vars

(***************************************************************************)
(* Unmount: the cleanup function of the effect (jsx copy only).            *)
(***************************************************************************)
\* the listener left registered
KeepListener(reg, s) == reg

RemoveListener(reg, s) == reg \ {s}

\* cleanup without the call of renderer.dispose()
SkipRendererDispose(r) == r

\* renderer.dispose(): frees the renderer's GPU state, stops its loop
RendererDispose(r) == [r EXCEPT !.disposed = TRUE, !.animating = FALSE]

\* renderer.forceContextLoss()
ForceContextLoss(r) == [r EXCEPT !.contextLost = TRUE]

\* of an array of materials only the first one disposed
MaterialDisposalsFirstOnly(mat) == IF Len(mat) = 0 THEN {} ELSE {mat[1]}

\* object.material.dispose(), or dispose() of each material of an array
MaterialDisposals(mat) ==
  IF Len(mat) = 0 THEN {}
  ELSE IF Len(mat) > 1 THEN {mat[i] : i \in 1..Len(mat)}
  ELSE {mat[1]}

\* scene.traverse(object => dispose geometry and material)
TraverseDispose(sc, m) ==
  UNION {NodeGeometry(n) \cup MaterialDisposals(NodeMaterial(n)) :
           n \in Reachable(sc, m)}

cleanup(s) ==
  /\ mousemoveListeners' = RemoveListener(mousemoveListeners, s)
  /\ resizeListeners' = RemoveListener(resizeListeners, s)
  /\ renderer' = IF IsDefined(renderer[s])
                 THEN [renderer EXCEPT
                         ![s] = ForceContextLoss(RendererDispose(@))]
                 ELSE renderer
  \* renderer.domElement.remove()
  /\ container' = IF IsDefined(renderer[s])
                  THEN [container EXCEPT !.children = Remove(@, s)]
                  ELSE container
  /\ disposed' = IF IsDefined(scene[s])
                 THEN [disposed EXCEPT
                         ![s] = @ \cup TraverseDispose(scene[s], modelT[s])]
                 ELSE disposed
  /\ status' = [status EXCEPT ![s] = "stopped"]

\* a cleanup returned on every path of the effect
AlwaysHasCleanup(st) == TRUE

\* the effect returns its cleanup at its end; the early return of a mount
\* that found no container returns none
HasCleanup(st) == st = "live"

\* React unmounts the component: it runs the cleanup the effect returned
Unmount(s) ==
  /\ variant = "jsx"
  /\ status[s] \in {"live", "aborted"}
  /\ IF HasCleanup(status[s])
     THEN cleanup(s)
     ELSE /\ status' = [status EXCEPT ![s] = "unmounted"]
          /\ UNCHANGED <<mousemoveListeners, resizeListeners, renderer,
                         container, disposed>>
  /\ UNCHANGED <<variant, layout, now, console, scene, camera, water, sky,
                 modelT, mouseX, windowHalfX, waterNormals, modelLoad,
                 renderTarget, allocated, frames, thrown, clock, sessionStart,
                 lastClientX>>

(***************************************************************************)
(* The program.                                                            *)
(***************************************************************************)
\* One mount of the component (and its unmount), with every event the
\* page and the engine can deliver to it.
Next ==
  \/ Mount(1)
  \/ \E s \in Sessions : Unmount(s)
  \/ \E s \in Sessions : Frame(s)
  \/ Tick
  \/ \E x \in ClientXs : PointerMove(x)
  \/ \E l \in Layouts : WindowResize(l)
  \/ \E s \in Sessions, g \in GltfScenes : ModelLoaded(s, g)
  \/ \E s \in Sessions : ModelFailed(s)
  \/ \E s \in Sessions : ModelProgress(s)
  \/ \E s \in Sessions : TextureLoaded(s)
  \/ \E s \in Sessions : TextureFailed(s)
  \/ \E s \in Sessions : TextureProgress(s)

Spec == Init /\ [][Next]_vars

\* Several mounts into the same container, in any order with unmounts:
\* a remount after an unmount, or a second mount while the first is live.
\* In these behaviours the asset loads stay in flight and the clock is not
\* observed.
NextSessions ==
  \/ \E s \in Sessions : Mount(s)
  \/ \E s \in Sessions : Unmount(s)
  \/ \E s \in Sessions : Frame(s)
  \/ \E x \in ClientXs : PointerMove(x)
  \/ \E l \in Layouts : WindowResize(l)

SpecSessions == Init /\ [][NextSessions]_vars

(***************************************************************************)
(* Properties.                                                             *)
(***************************************************************************)
Live(s) == status[s] = "live"

Stopped(s) == status[s] = "stopped"

Animating(s) == IsDefined(renderer[s]) /\ renderer[s].animating

\* C1: once stop() has run for a session, a model load that succeeds
\* afterwards changes nothing: the model slot stays as it was (absent) and
\* the scene graph of the disposed session gains no node.
C1_LateLoadIsNoOp ==
  [][\A s \in Sessions :
       Stopped(s) => modelT'[s] = modelT[s] /\ scene'[s] = scene[s]]_vars

\* C2: once stop() has run for a session its animation loop is stopped, and
\* no step changes what a frame update writes: the frame count, the camera,
\* the water phase and the draw count of that session stay as they are.
C2_StopHaltsLoop ==
  /\ [](\A s \in Sessions : Stopped(s) => ~Animating(s))
  /\ [][\A s \in Sessions :
          Stopped(s) => /\ frames'[s] = frames[s]
                        /\ camera'[s] = camera[s]
                        /\ water'[s] = water[s]
                        /\ renderer'[s].draws = renderer[s].draws]_vars

\* a session stopped after its loop has run, with refreshes still to come
C2_Witness ==
  \E s \in Sessions :
    Stopped(s) /\ frames[s] >= 1 /\ TotalFrames < MaxFrames

C4_OneLoopOneCanvas ==
  /\ Cardinality({s \in Sessions : Animating(s)}) <= 1
  /\ (\E s \in Sessions : Live(s)) => Len(container.children) = 1

\* C5: after stop(), every geometry, material and texture the session
\* allocated has been disposed.
C5_AllDisposedAfterStop ==
  \A s \in Sessions : Stopped(s) => allocated[s] \subseteq disposed[s]

\* a mount that found no container
Aborted(s) == status[s] \in {"aborted", "unmounted"}

\* nothing of a session exists: no renderer, scene or GPU resource, no load
\* in flight, no listener, no frame update
NoEffects(s) ==
  /\ ~IsDefined(renderer[s]) /\ ~IsDefined(scene[s])
  /\ ~IsDefined(camera[s]) /\ ~IsDefined(water[s]) /\ ~IsDefined(sky[s])
  /\ ~IsDefined(waterNormals[s]) /\ ~IsDefined(modelT[s])
  /\ ~IsDefined(renderTarget[s])
  /\ allocated[s] = {}
  /\ modelLoad[s] = "idle"
  /\ s \notin mousemoveListeners /\ s \notin resizeListeners
  /\ frames[s] = 0
  /\ container.children = <<>>

\* C6: a mount that finds no container logs an error and has no further
\* effect.
C6_MissingContainerAborts ==
  \A s \in Sessions :
    Aborted(s) => console[s].container = 1 /\ NoEffects(s)

\* console.error lines caused by the failure of the model load; a failure of
\* the texture load accounts for one manager line of its own
ModelErrorLines(s) ==
  console[s].model + (console[s].manager - console[s].texture)

\* C7: after the model load failed, the session keeps running, exactly one
\* error has been logged for the failure, and the model slot is absent.
C7_ModelFailureTolerated ==
  \A s \in Sessions :
    modelLoad[s] = "failed" =>
      /\ Live(s) => Animating(s)
      /\ ~IsDefined(modelT[s])
      /\ ModelErrorLines(s) = 1

\* the double reached by n additions of the double 1/40 to 0
RECURSIVE NFoldSum(_)
NFoldSum(n) == IF n = 0 THEN BigZero ELSE FAdd(NFoldSum(n - 1), FDiv(1, 40))

PhaseAfter == [n \in 0..(MaxFrames + 1) |-> NFoldSum(n)]

\* a - b in units of 2^-58, for doubles that lie close together
BigDiff(a, b) ==
  LET h == (a[3] - b[3]) * LimbBase + (a[2] - b[2])
  IN  IF h > 1 THEN LimbBase ELSE IF h < -1 THEN -LimbBase
      ELSE h * LimbBase + (a[1] - b[1])

Abs(i) == IF i < 0 THEN -i ELSE i

\* C8 as stated: after N frame updates the water phase equals N/40.
C8_PhaseIsFramesOver40 ==
  \A s \in Sessions :
    IsDefined(water[s]) => water[s].time = FDiv(frames[s], 40)

\* C8 amended: after N frame updates the water phase is the double reached
\* by N additions of the double 1/40 to 0, whatever clock values were
\* sampled and whatever events came between the frames; it lies within
\* N * 2^-55 of the double N/40.
C8_PhaseIsNFoldSum ==
  \A s \in Sessions :
    IsDefined(water[s]) =>
      /\ water[s].time = PhaseAfter[frames[s]]
      /\ Abs(BigDiff(water[s].time, FDiv(frames[s], 40))) <= 8 * frames[s]

\* three frames, with clock ticks, a pointer move and a finished model load
\* between them: the phase is 0.07500000000000001, not 3/40
C8_Witness ==
  \E s \in Sessions :
    /\ IsDefined(water[s]) /\ frames[s] = 3
    /\ now > 0 /\ mouseX[s] # 0 /\ modelLoad[s] # "pending"
    /\ water[s].time # FDiv(3, 40)

\* C9: no frame update of a session raises, whatever the state of the model
\* load: each one updates the camera and draws.
C9_FrameNeverThrows ==
  \A s \in Sessions :
    IsDefined(camera[s]) =>
      /\ thrown[s] = 0
      /\ Len(camera[s].x) = frames[s]
      /\ renderer[s].draws = frames[s]
      /\ ~IsDefined(modelT[s]) => modelLoad[s] # "loaded"

\* frames have run in a session whose model load failed
C9_Witness ==
  \E s \in Sessions :
    /\ Live(s) /\ modelLoad[s] = "failed" /\ ~IsDefined(modelT[s])
    /\ frames[s] >= 2 /\ renderer[s].draws = frames[s]

ModelNodes(s) == Len(SelectSeq(scene[s].children, LAMBDA n : n = "modelT"))

\* C10: the model slot changes only from absent to present, once: a
\* populated slot keeps its node, the node is attached when the slot is
\* populated and never again, and the root holds at most one model node.
C10_ModelAttachedOnce ==
  /\ [](\A s \in Sessions :
          IsDefined(scene[s]) =>
            /\ ModelNodes(s) = (IF IsDefined(modelT[s]) THEN 1 ELSE 0)
            /\ IsDefined(modelT[s]) <=> modelLoad[s] = "loaded")
  /\ [][\A s \in Sessions :
          IsDefined(modelT[s]) =>
            /\ IsDefined(modelT'[s])
            /\ modelT'[s].gltf = modelT[s].gltf
            /\ scene'[s].children = scene[s].children]_vars

\* a populated slot that frames, a resize and a pointer move have passed over
C10_Witness ==
  \E s \in Sessions :
    /\ IsDefined(modelT[s]) /\ modelT[s].motion # <<>>
    /\ ModelNodes(s) = 1 /\ frames[s] >= 2 /\ mouseX[s] # 0

\* the camera has followed one pointer offset in all its frames
HeldConstant(cam) == \A i \in 1..Len(cam.x) : cam.x[i] = cam.x[1]

NatAbsDiff(a, b) == IF NatCmp(a, b) >= 0 THEN NatSub(a, b) ELSE NatSub(b, a)

RECURSIVE NatPow(_, _)
NatPow(b, k) == IF k = 0 THEN <<1>> ELSE NatMulLimb(NatPow(b, k - 1), b)

\* The comparisons of C11 are made between exact rational numbers, all
\* multiplied by 200 * 20^k * 2^e, where 2^-e is the weight of the last bit
\* of the double x; the target of the offset mx is mx * 0.015 = 3 mx / 200.
ScaleExp(x) == IF x.exp < 0 THEN -x.exp ELSE 0

\* |x - target| * 200 * 2^e
DistanceToTarget(x, mx) ==
  LET u == NatMulLimb(NatShl(x.mant, x.exp + ScaleExp(x)), 200)
      v == NatShl(NatOf(3 * Abs(mx)), ScaleExp(x))
  IN  IF x.neg = (mx < 0) THEN NatAbsDiff(u, v) ELSE NatAdd(u, v)

\* |x - target| * 200 * 20^k * 2^e
DistanceAfter(x, mx, k) == NatMul(DistanceToTarget(x, mx), NatPow(20, k))

\* |30 - target| * 0.95^k * 200 * 20^k * 2^e
GeometricDistance(x, mx, k) ==
  NatShl(NatMul(NatOf(Abs(6000 - 3 * mx)), NatPow(19, k)), ScaleExp(x))

\* | a - b | <= 2^-44 for the distances a / s and b / s, s = 200 * 20^k * 2^e
WithinRounding(a, b, x, k) ==
  LET up == IF ScaleExp(x) < 44 THEN 44 - ScaleExp(x) ELSE 0
  IN  NatCmp(NatShl(NatAbsDiff(a, b), up),
             NatMul(NatShl(<<200>>, ScaleExp(x) + up - 44), NatPow(20, k)))
        <= 0

\* the pointer offset the camera of s has followed, 0 before its first frame
Followed(s) == IF camera[s].x = <<>> THEN 0 ELSE camera[s].x[1]

ContentBox(l) == <<l.clientWidth, l.clientHeight>>

\* C12: while the resize listener of a session is registered, its camera
\* aspect is W/H and its renderer size is (W, H) for the current content
\* box (W, H) of the container; a step that changes the layout changes
\* nothing else of the session (pointer state, captured half width, camera
\* position, water, sky, scene, model slot, frame and draw counts); and the
\* handler is idempotent: applied twice for the same box it yields what it
\* yields applied once.
C12_ResizeSetsAspectAndSize ==
  /\ [](\A s \in resizeListeners :
          /\ camera[s].aspect = ContentBox(layout)
          /\ renderer[s].size = ContentBox(layout)
          /\ \A l \in Layouts :
               /\ onWindowResizeCamera(onWindowResizeCamera(camera[s], l), l)
                    = onWindowResizeCamera(camera[s], l)
               /\ onWindowResizeRenderer(
                    onWindowResizeRenderer(renderer[s], l), l)
                    = onWindowResizeRenderer(renderer[s], l))
  /\ [][layout' # layout =>
          \A s \in Sessions :
            /\ mouseX'[s] = mouseX[s] /\ windowHalfX'[s] = windowHalfX[s]
            /\ water'[s] = water[s] /\ sky'[s] = sky[s]
            /\ scene'[s] = scene[s] /\ modelT'[s] = modelT[s]
            /\ frames'[s] = frames[s] /\ status'[s] = status[s]
            /\ IsDefined(camera[s]) =>
                 /\ camera'[s].x = camera[s].x
                 /\ camera'[s].lookAt = camera[s].lookAt
                 /\ renderer'[s] = [renderer[s] EXCEPT
                                      !.size = renderer'[s].size]]_vars

\* a session resized after its start (the half width captured at start is
\* no longer that of the window), with frames, a pointer offset and a model
C12_Witness ==
  \E s \in resizeListeners :
    /\ windowHalfX[s] # layout.innerWidth \div 2
    /\ camera[s].aspect = ContentBox(layout)
    /\ frames[s] >= 1 /\ mouseX[s] # 0 /\ IsDefined(modelT[s])

\* C13 as stated: the clock value a frame samples is the time elapsed since
\* the start of its session.
C13_ClockIsSessionElapsed ==
  [][\A s \in Sessions :
       frames'[s] # frames[s] => clock'[s] = <<now - sessionStart[s]>>]_vars

\* C13 amended: the clock value a frame samples is performance.now() in
\* seconds (here in thousandths), the time elapsed since the time origin of
\* the page, which is not less than the time elapsed since the start of the
\* session; the value sampled by a frame is not less than the value the
\* frame before it sampled, and between frames it is not reset.
C13_ClockIsPageElapsed ==
  /\ [](\A s \in Sessions :
          /\ clock[s] # <<>> <=> frames[s] > 0
          /\ clock[s] # <<>> =>
               sessionStart[s] <= clock[s][1] /\ clock[s][1] <= now)
  /\ [][\A s \in Sessions :
          IF frames'[s] # frames[s]
          THEN /\ clock'[s] = <<now>>
               /\ clock[s] # <<>> => clock[s][1] <= clock'[s][1]
          ELSE clock'[s] = clock[s]]_vars

\* frames of a session started after the time origin: the last of them
\* sampled a value that is more than the time elapsed since the start
C13_Witness ==
  \E s \in Sessions :
    /\ frames[s] >= 2 /\ sessionStart[s] > 0
    /\ clock[s][1] >= sessionStart[s]
    /\ clock[s][1] > now - sessionStart[s]

\* every variable but the record of what was mounted and unmounted
programState ==
  << variant, container, layout, now, mousemoveListeners, resizeListeners,
     console, renderer, scene, camera, water, sky, modelT, mouseX,
     windowHalfX, waterNormals, modelLoad, renderTarget, allocated, disposed,
     frames, thrown, clock, sessionStart, lastClientX >>

\* C14: unmounting a mount that found no container changes no state and
\* raises nothing: no cleanup runs for it, so a cleanup has only ever run
\* for a session that has a renderer and a scene, and after the unmount
\* nothing of the session exists, nothing was disposed and nothing logged.
C14_StopWithoutSessionIsNoOp ==
  /\ [](\A s \in Sessions :
          /\ Stopped(s) => IsDefined(renderer[s]) /\ IsDefined(scene[s])
          /\ status[s] = "unmounted" =>
               /\ NoEffects(s)
               /\ disposed[s] = {} /\ thrown[s] = 0
               /\ console[s] = NoErrors)
  /\ [][\A s \in Sessions :
          status[s] = "aborted" /\ status'[s] # "aborted" =>
            status'[s] = "unmounted" /\ UNCHANGED programState]_vars

\* the component was mounted without a container and then unmounted
C14_Witness ==
  \E s \in Sessions :
    status[s] = "unmounted" /\ ~container.present /\ variant = "jsx"

\* C15 as stated: the pointer state is the offset of the last pointer-move
\* from the centre of the viewport as it is now.
C15_PointerIsOffsetFromCentre ==
  \A s \in Sessions :
    lastClientX[s] # <<>> =>
      mouseX[s] = lastClientX[s][1] - layout.innerWidth \div 2

\* C15 amended: the pointer state is twice the offset of the last
\* pointer-move from windowHalfX, half the width the viewport had when
\* windowHalfX was evaluated (0 before any pointer-move); windowHalfX does
\* not follow a resize; and the pointer state is written by the pointer-move
\* listener only: a step that changes it is no frame update, no resize, no
\* load callback and no start or stop.
C15_PointerIsTwiceOffsetFromCapturedCentre ==
  /\ [](\A s \in Sessions :
          mouseX[s] = IF lastClientX[s] = <<>> THEN 0
                      ELSE (lastClientX[s][1] - windowHalfX[s]) * 2)
  /\ [][\A s \in Sessions :
          /\ Live(s) /\ Live(s)' => windowHalfX'[s] = windowHalfX[s]
          /\ mouseX'[s] # mouseX[s] =>
               /\ s \in mousemoveListeners
               /\ UNCHANGED <<variant, container, layout, now,
                              mousemoveListeners, resizeListeners, console,
                              status, renderer, scene, camera, water, sky,
                              modelT, windowHalfX, waterNormals, modelLoad,
                              renderTarget, allocated, disposed, frames,
                              thrown, clock, sessionStart>>]_vars

\* a pointer-move recorded in a window whose width is no longer the one
\* windowHalfX was taken from, with frames drawn since
C15_Witness ==
  \E s \in mousemoveListeners :
    /\ lastClientX[s] # <<>> /\ mouseX[s] # 0
    /\ windowHalfX[s] # layout.innerWidth \div 2
    /\ mouseX[s] # lastClientX[s][1] - layout.innerWidth \div 2
    /\ frames[s] >= 1

SunAgain(s) ==
  updateSun(scene[s], sky[s], water[s], renderTarget[s], disposed[s])

\* C17: in every state after startup updateSun has run exactly once for the
\* session: one environment was made, it is live (not disposed) and it is
\* the scene's environment, and the sky's sun position is the water's sun
\* direction.  No step but the start of the session changes the environment,
\* and no step after it changes the sun of sky or water, a frame update in
\* particular.  A further call would dispose the installed environment and
\* leave exactly one live.
C17_OneEnvironmentInstalled ==
  /\ [](\A s \in Sessions :
          IsDefined(scene[s]) =>
            /\ IsDefined(renderTarget[s])
            /\ renderTarget[s].generation = 1 /\ renderTarget[s].live = 1
            /\ renderTarget[s].name \notin disposed[s]
            /\ scene[s].environment = renderTarget[s].name
            /\ sky[s].sunPosition = SunVector
            /\ sky[s].sunPosition = water[s].sunDirection
            /\ renderTarget[s].name \in SunAgain(s).disposed
            /\ SunAgain(s).renderTarget.live = 1
            /\ SunAgain(s).scene.environment = SunAgain(s).renderTarget.name)
  /\ [][\A s \in Sessions :
          /\ renderTarget'[s] # renderTarget[s] =>
               status[s] = "none" /\ Live(s)'
          /\ IsDefined(scene[s]) =>
               /\ scene'[s].environment = scene[s].environment
               /\ sky'[s] = sky[s]
               /\ water'[s].sunDirection = water[s].sunDirection]_vars

\* frames drawn and a resize handled under the environment made at startup
C17_Witness ==
  \E s \in Sessions :
    /\ IsDefined(renderTarget[s]) /\ renderTarget[s].generation = 1
    /\ scene[s].environment = "envTarget"
    /\ frames[s] >= 2 /\ windowHalfX[s] # layout.innerWidth \div 2

\* C18: the step that stops a session leaves disposed the geometry and
\* every material, each material of an array included, of every node that
\* is reachable from the root of its scene at that time.
C18_TraversalDisposesReachable ==
  [][\A s \in Sessions :
       Live(s) /\ Stopped(s)' =>
         \A n \in Reachable(scene[s], modelT[s]) :
           /\ NodeGeometry(n) \subseteq disposed'[s]
           /\ \A i \in 1..Len(NodeMaterial(n)) :
                NodeMaterial(n)[i] \in disposed'[s]]_vars

\* a session stopped with the model of two materials attached
C18_Witness ==
  \E s \in Sessions :
    /\ Stopped(s) /\ IsDefined(modelT[s]) /\ modelT[s].gltf = "multi"
    /\ {"modelGeometryB", "modelMaterialB1", "modelMaterialB2",
        "waterGeometry", "skyMaterial"} \subseteq disposed[s]

\* C19: whenever a frame callback can be delivered to a session (its loop is
\* registered and running), its scene, camera, water and sky exist; every
\* step that delivers one finds them, and none has ended in an exception.
C19_FramesOnlyAfterStart ==
  /\ [](\A s \in Sessions :
          /\ Animating(s) =>
               /\ IsDefined(scene[s]) /\ IsDefined(camera[s])
               /\ IsDefined(water[s]) /\ IsDefined(sky[s])
          /\ thrown[s] = 0)
  /\ [][\A s \in Sessions :
          frames'[s] # frames[s] =>
            /\ IsDefined(scene[s]) /\ IsDefined(camera[s])
            /\ IsDefined(water[s]) /\ IsDefined(sky[s])
            /\ water'[s].time # water[s].time
            /\ renderer'[s].draws = renderer[s].draws + 1]_vars

\* the first frame of a session, delivered with no time passed since its
\* start and both loads still in flight
C19_Witness ==
  \E s \in Sessions :
    /\ frames[s] = 1 /\ renderer[s].draws = 1 /\ thrown[s] = 0
    /\ clock[s] = <<sessionStart[s]>>
    /\ modelLoad[s] = "pending" /\ waterNormals[s].load = "pending"

\* the nodes a root must hold: water, sky, and the model when its slot is
\* populated
RootNodes(s) ==
  {"water", "sky"} \cup (IF IsDefined(modelT[s]) THEN {"modelT"} ELSE {})

\* C20: the children of the root of a session's scene are water and sky,
\* and the model node exactly when the model slot is populated, each of
\* them once; this holds in every state from startup on, so in every state
\* in which a frame is drawn.  updateSun returns with the sky back under
\* the root and sceneEnv empty, and no step detaches water or sky.
C20_RootChildren ==
  /\ [](\A s \in Sessions :
          IsDefined(scene[s]) =>
            /\ Range(scene[s].children) = RootNodes(s)
            /\ Len(scene[s].children) = Cardinality(RootNodes(s))
            /\ SunAgain(s).sceneEnv = <<>>
            /\ Range(SunAgain(s).scene.children) = RootNodes(s)
            /\ Len(SunAgain(s).scene.children) = Cardinality(RootNodes(s)))
  /\ [][\A s \in Sessions :
          /\ IsDefined(scene[s]) =>
               {"water", "sky"} \subseteq Range(scene'[s].children)
          /\ frames'[s] # frames[s] =>
               /\ Range(scene[s].children) = RootNodes(s)
               /\ scene'[s] = scene[s]]_vars

\* frames drawn with the model attached under the root
C20_Witness ==
  \E s \in Sessions :
    /\ Live(s) /\ scene[s].children = <<"water", "sky", "modelT">>
    /\ frames[s] >= 2 /\ modelT[s].motion # <<>>
    /\ renderer[s].draws = frames[s]

====
